---- MODULE Spec2Model ----
(***************************************************************************)
(* Model of streamlit_app.py: the EV vs petrol sales dashboard.            *)
(*                                                                         *)
(* The file:   csv (the dataset file), cache (what st.cache_data holds for  *)
(* load_data), reads (the times read_csv has read the file), stale (the    *)
(* last call of load_data was answered from the cache while the file held  *)
(* something else).  The other variables are the script's globals of the   *)
(* same names after the last run, rendered the steps that completed in it  *)
(* and exception the exception that ended it.                              *)
(*                                                                         *)
(* One script run (Start, Interact) is one synchronous execution of the    *)
(* module from top to bottom: load_data, the sidebar widgets, the filter,  *)
(* the ten charts, the four metrics and the raw-data table.  An exception  *)
(* raised by a statement ends the run at that statement.                   *)
(*                                                                         *)
(* Numbers.  Sales figures are naturals.  ev_share (a percentage rounded   *)
(* to two decimals) is kept in hundredths of a percent; ev_market_share    *)
(* (a fraction 0..1) in thousandths.  A float that may be NaN is a record  *)
(* [nan, v].  Arithmetic is exact: binary floating-point error is not      *)
(* modelled.                                                               *)
(***************************************************************************)
EXTENDS Integers, Sequences, FiniteSets, TLC

VARIABLES csv, cache, reads, stale, df,
          selected_countries, selected_years,
          filtered_df, sales_by_year, market_share_by_country,
          latest_year, vehicle_dist, gdp_ev_data, range_data,
          total_ev, total_petrol, avg_ev_share, total_charging,
          rendered, exception

vars == <<csv, cache, reads, stale, df, selected_countries, selected_years,
          filtered_df, sales_by_year, market_share_by_country,
          latest_year, vehicle_dist, gdp_ev_data, range_data,
          total_ev, total_petrol, avg_ev_share, total_charging,
          rendered, exception>>

---------------------------------------------------------------------------
(* Bounds of the model *)

MaxRows == 3        \* rows of a dataset (Spec)
MaxEnvRows == 1     \* rows of a dataset (SpecCache, SpecMalformed)
MaxMissing == 1     \* columns a malformed file may lack
MaxPick == 1        \* countries the user toggles away from none / from all
MaxWide == 17       \* countries of a wide dataset (SpecWide)
MaxTies == 1        \* countries of a wide dataset tied with their successor
MaxReads == 3       \* cap on the read counter

(* Program constants *)

TopN == 15          \* .head(15)
DefaultPick == 5    \* [:5]

CountryNames == {1, 2}   \* country names, ordered as their strings sort
YearValues == {1, 2}
SalesLevels == {0, 1}

---------------------------------------------------------------------------
(* Values *)

NaN == [nan |-> TRUE, v |-> 0]
Num(x) == [nan |-> FALSE, v |-> x]

SetMin(S) == CHOOSE x \in S : \A y \in S : x <= y
SetMax(S) == CHOOSE x \in S : \A y \in S : x >= y

RECURSIVE SortedSeq(_)
\* sorted(...): the elements of a set of integers in ascending order
SortedSeq(S) ==
    IF S = {} THEN <<>> ELSE <<SetMin(S)>> \o SortedSeq(S \ {SetMin(S)})

RECURSIVE SmallSubsets(_, _)
\* the subsets of S with at most k elements
SmallSubsets(S, k) ==
    IF k = 0 THEN {{}}
    ELSE LET T == SmallSubsets(S, k - 1)
         IN  T \cup {t \cup {x} : t \in T, x \in S}

RECURSIVE Perms(_)
\* every ordering of the elements of a sequence
Perms(s) ==
    IF s = <<>> THEN {<<>>}
    ELSE UNION {{<<s[i]>> \o p :
                   p \in Perms(SubSeq(s, 1, i - 1) \o SubSeq(s, i + 1, Len(s)))}
                : i \in 1..Len(s)}

---------------------------------------------------------------------------
(* The dataset file *)

AllCols == {"country", "region", "year", "ev_sales", "petrol_car_sales",
            "diesel_car_sales", "ev_market_share", "ev_growth_rate_yoy",
            "gdp_per_capita", "charging_stations", "avg_ev_range_km",
            "co2_emissions_transport_mt"}

Nothing == [ok |-> FALSE, cols |-> {}, rows |-> <<>>]
Table(cols, rows) == [ok |-> TRUE, cols |-> cols, rows |-> rows]

\* one record of the file; idx is the row label (RangeIndex) read_csv gives it
MkRow(i, c, y, ev, petrol, diesel) ==
    [idx |-> i, country |-> c, region |-> c % 2, year |-> y,
     ev_sales |-> ev, petrol_car_sales |-> petrol, diesel_car_sales |-> diesel,
     ev_market_share |->
        IF ev + petrol + diesel = 0 THEN 0
        ELSE (1000 * ev) \div (ev + petrol + diesel),
     charging_stations |-> ev * y]

Shapes == CountryNames \X YearValues \X SalesLevels

RowsOf(k) ==
    {[i \in 1..k |->
        MkRow(i - 1, f[i][1], f[i][2], f[i][3],
              IF f[i][3] = 0 THEN 0 ELSE 2, IF f[i][3] = 0 THEN 0 ELSE 1)]
     : f \in [1..k -> Shapes]}

Datasets(n) == UNION {RowsOf(k) : k \in 0..n}

\* a dataset of n countries, one row each, shares all different except that
\* each country of T has the sales of the next country
WideLevel(i, T) == IF i \in T THEN i + 1 ELSE i
WideRows(n, T) ==
    [i \in 1..n |->
        MkRow(i - 1, i, 1, WideLevel(i, T), MaxWide + 2 - WideLevel(i, T), 0)]

WideDatasets ==
    {WideRows(n, T) : n \in (TopN + 1)..MaxWide,
                      T \in SmallSubsets(1..TopN, MaxTies)}

ColumnSets == {AllCols \ S : S \in SmallSubsets(AllCols, MaxMissing)}

---------------------------------------------------------------------------
(* load_data, under st.cache_data *)

\* A call that reads the file every time.
LoadDataUncached(memo, file) ==
    IF file.ok THEN [df |-> file, cache |-> file, read |-> 1]
    ELSE [df |-> Nothing, cache |-> Nothing, read |-> 0]

\* the table the call returns, the memo afterwards, and the reads it made;
\* a call that raises stores nothing
LoadData(memo, file) ==
    IF memo.ok THEN [df |-> memo, cache |-> memo, read |-> 0]
    ELSE IF file.ok THEN [df |-> file, cache |-> file, read |-> 1]
    ELSE [df |-> Nothing, cache |-> memo, read |-> 0]

---------------------------------------------------------------------------
(* The sidebar *)

Unique(rows, col) == {rows[i][col] : i \in 1..Len(rows)}

CountryOptions(d) == SortedSeq(Unique(d.rows, "country"))

DefaultCountries(d) ==
    LET o == CountryOptions(d)
    IN  {o[i] : i \in 1..(IF Len(o) < DefaultPick THEN Len(o) ELSE DefaultPick)}

YearMin(d) == SetMin(Unique(d.rows, "year"))
YearMax(d) == SetMax(Unique(d.rows, "year"))
DefaultYears(d) == <<YearMin(d), YearMax(d)>>

\* what the multiselect can hold
CountryChoices(d) ==
    LET all == Unique(d.rows, "country")
        few == SmallSubsets(all, MaxPick)
    IN  few \cup {all \ s : s \in few} \cup {DefaultCountries(d)}

\* what the range slider can hold
YearChoices(d) ==
    {<<lo, hi>> \in (YearMin(d)..YearMax(d)) \X (YearMin(d)..YearMax(d)) : lo <= hi}

---------------------------------------------------------------------------
(* The filter *)

\* A range that leaves its upper end out.
InSelectionExclusive(r, countries, years) ==
    /\ r.country \in countries
    /\ r.year >= years[1]
    /\ r.year < years[2]

InSelection(r, countries, years) ==
    /\ r.country \in countries
    /\ r.year >= years[1]
    /\ r.year <= years[2]

\* A mask that compares the lower end strictly.
FilterAboveMin(rows, countries, years) ==
    SelectSeq(rows, LAMBDA r : /\ r.country \in countries
                               /\ r.year > years[1]
                               /\ r.year <= years[2])

Filter(rows, countries, years) ==
    SelectSeq(rows, LAMBDA r : InSelection(r, countries, years))

---------------------------------------------------------------------------
(* Reductions *)

RECURSIVE SumCol(_, _)
SumCol(rows, col) ==
    IF rows = <<>> THEN 0 ELSE Head(rows)[col] + SumCol(Tail(rows), col)

\* Series.max(): NaN over no rows
MaxCol(rows, col) ==
    IF rows = <<>> THEN NaN ELSE Num(SetMax(Unique(rows, col)))

\* Series.mean() * 100: NaN over no rows, else the fraction num / den
MeanCol100(rows, col) ==
    IF rows = <<>> THEN [nan |-> TRUE, num |-> 0, den |-> 1]
    ELSE [nan |-> FALSE, num |-> 100 * SumCol(rows, col), den |-> Len(rows)]

WhereCol(rows, col, x) == SelectSeq(rows, LAMBDA r : r[col] = x)

\* rows[rows['year'] == y]: a NaN y equals nothing
WhereYear(rows, y) ==
    IF y.nan THEN <<>> ELSE WhereCol(rows, "year", y.v)

---------------------------------------------------------------------------
(* Chart 1 *)

\* A group-by that takes each year's first row instead of the sum.
SalesByYearFirst(view) ==
    LET ys == SortedSeq(Unique(view, "year"))
    IN  [i \in 1..Len(ys) |->
            [year |-> ys[i],
             ev_sales |-> Head(WhereCol(view, "year", ys[i])).ev_sales,
             petrol_car_sales |->
                Head(WhereCol(view, "year", ys[i])).petrol_car_sales]]

SalesByYear(view) ==
    LET ys == SortedSeq(Unique(view, "year"))
    IN  [i \in 1..Len(ys) |->
            [year |-> ys[i],
             ev_sales |-> SumCol(WhereCol(view, "year", ys[i]), "ev_sales"),
             petrol_car_sales |->
                SumCol(WhereCol(view, "year", ys[i]), "petrol_car_sales")]]

---------------------------------------------------------------------------
(* Chart 2 *)

\* n / d rounded to the nearest integer, halves to the even one
RoundHalfEven(n, d) ==
    LET q == n \div d
        r == n % d
    IN  IF 2 * r < d THEN q
        ELSE IF 2 * r > d THEN q + 1
        ELSE IF q % 2 = 0 THEN q ELSE q + 1

\* (ev / total * 100).round(2), in hundredths; 0 / 0 is NaN
EvShare(ev, total) ==
    IF total = 0 THEN NaN ELSE Num(RoundHalfEven(10000 * ev, total))

\* the grouped table with its total and ev_share columns, in country order
MarketShare(view) ==
    LET cs == SortedSeq(Unique(view, "country"))
        g(c) == WhereCol(view, "country", c)
        tot(c) == SumCol(g(c), "ev_sales") + SumCol(g(c), "petrol_car_sales")
                  + SumCol(g(c), "diesel_car_sales")
    IN  [i \in 1..Len(cs) |->
            [country |-> cs[i],
             ev_sales |-> SumCol(g(cs[i]), "ev_sales"),
             petrol_car_sales |-> SumCol(g(cs[i]), "petrol_car_sales"),
             diesel_car_sales |-> SumCol(g(cs[i]), "diesel_car_sales"),
             total |-> tot(cs[i]),
             ev_share |-> EvShare(SumCol(g(cs[i]), "ev_sales"), tot(cs[i]))]]

RECURSIVE DescendingRuns(_, _)
\* the orderings of t by descending ev_share over the share values S; rows of
\* equal share come in any order (the default sort kind is not a stable one)
DescendingRuns(t, S) ==
    IF S = {} THEN {<<>>}
    ELSE LET m == SetMax(S)
             run == SelectSeq(t, LAMBDA r : r.ev_share.v = m)
         IN  {p \o rest : p \in Perms(run), rest \in DescendingRuns(t, S \ {m})}

\* sort_values('ev_share', ascending=False): every table the sort may return;
\* NaN shares go last, in their original order
SortValues(t) ==
    LET known == SelectSeq(t, LAMBDA r : ~r.ev_share.nan)
        nans == SelectSeq(t, LAMBDA r : r.ev_share.nan)
        S == {known[i].ev_share.v : i \in 1..Len(known)}
    IN  {s \o nans : s \in DescendingRuns(known, S)}

\* .head(n)
HeadN(t, n) == SubSeq(t, 1, IF Len(t) < n THEN Len(t) ELSE n)

---------------------------------------------------------------------------
(* Charts 3, 6 and 9 *)

\* filtered_df['year'].max()
LatestYear(view) == MaxCol(view, "year")

VehicleDist(view, ly) ==
    LET latest_data == WhereYear(view, ly)
    IN  <<SumCol(latest_data, "ev_sales"),
          SumCol(latest_data, "petrol_car_sales"),
          SumCol(latest_data, "diesel_car_sales")>>

RECURSIVE DropDuplicatesKeepLast(_, _)
\* A deduplication that keeps the last row of each country.
DropDuplicatesKeepLast(rows, seen) ==
    IF rows = <<>> THEN <<>>
    ELSE IF \E i \in 2..Len(rows) : rows[i].country = Head(rows).country
    THEN DropDuplicatesKeepLast(Tail(rows), seen)
    ELSE <<Head(rows)>> \o DropDuplicatesKeepLast(Tail(rows), seen)

RECURSIVE DropDuplicates(_, _)
\* drop_duplicates('country'): the first row of each country, in order
DropDuplicates(rows, seen) ==
    IF rows = <<>> THEN <<>>
    ELSE IF Head(rows).country \in seen THEN DropDuplicates(Tail(rows), seen)
    ELSE <<Head(rows)>>
         \o DropDuplicates(Tail(rows), seen \cup {Head(rows).country})

\* the kept rows with their ev_market_share_pct column, in thousandths
GdpEvData(view, ly) ==
    LET kept == DropDuplicates(WhereYear(view, ly), {})
    IN  [i \in 1..Len(kept) |->
            [row |-> kept[i],
             ev_market_share_pct |-> kept[i].ev_market_share * 100]]

RangeData(view, ly) == WhereYear(view, ly)

---------------------------------------------------------------------------
(* The script *)

Script == <<"load_data", "sidebar", "filter",
            "chart1", "chart2", "chart3", "chart4", "chart5",
            "chart6", "chart7", "chart8", "chart9", "chart10",
            "metric1", "metric2", "metric3", "metric4", "table">>

Aggregations == {"chart1", "chart2", "chart3", "chart4", "chart5",
                 "chart6", "chart7", "chart8", "chart9", "chart10",
                 "metric1", "metric2", "metric3", "metric4"}

\* the columns a step looks up
Uses(step) ==
    CASE step = "load_data" -> {}
      [] step = "sidebar" -> {"country", "year"}
      [] step = "filter" -> {"country", "year"}
      [] step = "chart1" -> {"year", "ev_sales", "petrol_car_sales"}
      [] step = "chart2" -> {"country", "ev_sales", "petrol_car_sales",
                             "diesel_car_sales"}
      [] step = "chart3" -> {"year", "ev_sales", "petrol_car_sales",
                             "diesel_car_sales"}
      [] step = "chart4" -> {"year", "region", "ev_sales"}
      [] step = "chart5" -> {"year", "ev_growth_rate_yoy", "country"}
      [] step = "chart6" -> {"year", "country", "ev_market_share",
                             "gdp_per_capita", "charging_stations", "region"}
      [] step = "chart7" -> {"year", "co2_emissions_transport_mt"}
      [] step = "chart8" -> {"year", "charging_stations"}
      [] step = "chart9" -> {"year", "region", "avg_ev_range_km"}
      [] step = "chart10" -> {"country", "year", "ev_market_share"}
      [] step = "metric1" -> {"ev_sales"}
      [] step = "metric2" -> {"petrol_car_sales"}
      [] step = "metric3" -> {"ev_market_share"}
      [] step = "metric4" -> {"charging_stations"}
      [] step = "table" -> {"year"}

\* the exception a step raises on the table d, or "none"
Raises(step, d) ==
    IF step = "load_data"
    THEN IF d.ok THEN "none" ELSE "FileNotFoundError"
    ELSE IF ~(Uses(step) \subseteq d.cols) THEN "KeyError"
    ELSE IF step = "sidebar" /\ d.rows = <<>> THEN "ValueError"
    ELSE "none"

\* the position in Script of the first step that raises; Len(Script) + 1 if none
FailAt(d) ==
    LET bad == {i \in 1..Len(Script) : Raises(Script[i], d) # "none"}
    IN  IF bad = {} THEN Len(Script) + 1 ELSE SetMin(bad)

\* the steps that complete: an exception propagates out of the script, so
\* nothing after the raising step runs
Completed(d) == {Script[i] : i \in 1..(FailAt(d) - 1)}

Raised(d) ==
    IF FailAt(d) > Len(Script) THEN "none" ELSE Raises(Script[FailAt(d)], d)

\* one run of the script with the widgets holding (countries, years)
Run(countries, years, d) ==
    \E done \in {Completed(d)} :
    \E view \in {IF "filter" \in done THEN Filter(d.rows, countries, years)
                 ELSE <<>>} :
    \E ly \in {LatestYear(view)} :
        /\ df' = d
        /\ rendered' = done
        /\ exception' = Raised(d)
        /\ selected_countries' = IF "sidebar" \in done THEN countries ELSE {}
        /\ selected_years' = IF "sidebar" \in done THEN years ELSE <<0, 0>>
        /\ filtered_df' = view
        /\ sales_by_year' =
              IF "chart1" \in done THEN SalesByYear(view) ELSE <<>>
        /\ \E sorted \in SortValues(IF "chart2" \in done
                                    THEN MarketShare(view) ELSE <<>>) :
              market_share_by_country' = HeadN(sorted, TopN)
        /\ latest_year' = IF "chart3" \in done THEN ly ELSE NaN
        /\ vehicle_dist' =
              IF "chart3" \in done THEN VehicleDist(view, ly) ELSE <<0, 0, 0>>
        /\ gdp_ev_data' =
              IF "chart6" \in done THEN GdpEvData(view, ly) ELSE <<>>
        /\ range_data' =
              IF "chart9" \in done THEN RangeData(view, ly) ELSE <<>>
        /\ total_ev' =
              IF "metric1" \in done THEN SumCol(view, "ev_sales") ELSE 0
        /\ total_petrol' =
              IF "metric2" \in done THEN SumCol(view, "petrol_car_sales") ELSE 0
        /\ avg_ev_share' =
              IF "metric3" \in done THEN MeanCol100(view, "ev_market_share")
              ELSE MeanCol100(<<>>, "ev_market_share")
        /\ total_charging' =
              IF "metric4" \in done THEN MaxCol(view, "charging_stations")
              ELSE NaN

\* the first run of a session: the widgets take their defaults
Start ==
    /\ "sidebar" \notin rendered
    /\ reads < MaxReads
    /\ \E l \in {LoadData(cache, csv)} :
           /\ cache' = l.cache
           /\ reads' = reads + l.read
           /\ stale' = (l.read = 0 /\ l.df.ok /\ csv # l.df)
           /\ IF Raises("sidebar", l.df) = "none" /\ l.df.ok
              THEN Run(DefaultCountries(l.df), DefaultYears(l.df), l.df)
              ELSE Run({}, <<0, 0>>, l.df)
    /\ UNCHANGED csv

\* the user changes a filter control, which runs the script again
Interact ==
    /\ "sidebar" \in rendered
    /\ reads < MaxReads
    /\ \E l \in {LoadData(cache, csv)} :
           /\ cache' = l.cache
           /\ reads' = reads + l.read
           /\ stale' = (l.read = 0 /\ l.df.ok /\ csv # l.df)
           /\ \E cs \in CountryChoices(l.df), ys \in YearChoices(l.df) :
                 Run(cs, ys, l.df)
    /\ UNCHANGED csv

\* the files the environment can hold
EnvFiles == {Nothing} \cup {Table(AllCols, r) : r \in Datasets(MaxEnvRows)}

\* one edit of the file: it is removed, it is created, or it gains or loses
\* its last row
OneEdit(a, b) ==
    \/ ~a.ok
    \/ ~b.ok
    \/ /\ Len(b.rows) = Len(a.rows) + 1
       /\ SubSeq(b.rows, 1, Len(a.rows)) = a.rows
    \/ /\ Len(a.rows) = Len(b.rows) + 1
       /\ SubSeq(a.rows, 1, Len(b.rows)) = b.rows

\* the file is edited behind the running process
FileChange ==
    /\ csv' \in {f \in EnvFiles : f # csv /\ OneEdit(csv, f)}
    /\ UNCHANGED <<cache, reads, stale, df, selected_countries, selected_years,
                   filtered_df, sales_by_year, market_share_by_country,
                   latest_year, vehicle_dist, gdp_ev_data, range_data,
                   total_ev, total_petrol, avg_ev_share, total_charging,
                   rendered, exception>>

Fresh ==
    /\ cache = Nothing
    /\ reads = 0
    /\ stale = FALSE
    /\ df = Nothing
    /\ selected_countries = {}
    /\ selected_years = <<0, 0>>
    /\ filtered_df = <<>>
    /\ sales_by_year = <<>>
    /\ market_share_by_country = <<>>
    /\ latest_year = NaN
    /\ vehicle_dist = <<0, 0, 0>>
    /\ gdp_ev_data = <<>>
    /\ range_data = <<>>
    /\ total_ev = 0
    /\ total_petrol = 0
    /\ avg_ev_share = MeanCol100(<<>>, "ev_market_share")
    /\ total_charging = NaN
    /\ rendered = {}
    /\ exception = "none"

\* a well-formed file that nothing changes
Init ==
    /\ csv \in {Table(AllCols, r) : r \in Datasets(MaxRows)}
    /\ Fresh

Next == Start \/ Interact

Spec == Init /\ [][Next]_vars

\* a file that may be absent and may change while the process runs
InitCache ==
    /\ csv \in EnvFiles
    /\ Fresh

NextCache == Start \/ Interact \/ FileChange

SpecCache == InitCache /\ [][NextCache]_vars

\* a file that may lack columns
InitMalformed ==
    /\ csv \in {Table(c, r) : c \in ColumnSets, r \in Datasets(MaxEnvRows)}
    /\ Fresh

SpecMalformed == InitMalformed /\ [][Next]_vars

\* a file with more countries than the top-N cut keeps
InitWide ==
    /\ csv \in {Table(AllCols, r) : r \in WideDatasets}
    /\ Fresh

SpecWide == InitWide /\ [][Next]_vars

---------------------------------------------------------------------------
(* Properties *)

Rows(t) == {t[i] : i \in 1..Len(t)}

\* the first step that did not complete in the last run
FailedStep == Script[Cardinality(rendered) + 1]

\* how a step of the last run ended
Outcome(step) ==
    IF step \in rendered THEN "value"
    ELSE IF exception # "none" /\ step = FailedStep THEN exception
    ELSE "not run"

\* C1: the filtered view holds exactly the rows of the dataset whose country
\* is selected and whose year lies in the selected range, both ends
\* included, in the order of the dataset.
FilterExact ==
    "filter" \in rendered =>
        /\ selected_countries \subseteq Unique(df.rows, "country")
        /\ selected_years[1] <= selected_years[2]
        /\ \A r \in Rows(filtered_df) :
              /\ r \in Rows(df.rows)
              /\ r.country \in selected_countries
              /\ selected_years[1] <= r.year
              /\ r.year <= selected_years[2]
        /\ \A r \in Rows(df.rows) :
              (/\ r.country \in selected_countries
               /\ selected_years[1] <= r.year
               /\ r.year <= selected_years[2]) => r \in Rows(filtered_df)
        /\ \A i, j \in 1..Len(filtered_df) :
              i < j => filtered_df[i].idx < filtered_df[j].idx

\* a view of two rows that left out a row of a selected country for its year
FilterExactWitness ==
    /\ "filter" \in rendered
    /\ Len(filtered_df) >= 2
    /\ \E r \in Rows(df.rows) :
          /\ r.country \in selected_countries
          /\ r.year > selected_years[2]

\* C2: with every country of the dataset selected and the years from the
\* least to the greatest of the dataset, the view is the whole dataset, in
\* order.
FullSelectionIsIdentity ==
    (/\ "filter" \in rendered
     /\ selected_countries = Unique(df.rows, "country")
     /\ selected_years = <<YearMin(df), YearMax(df)>>)
    => filtered_df = df.rows

FullSelectionWitness ==
    /\ "filter" \in rendered
    /\ selected_countries = Unique(df.rows, "country")
    /\ selected_years = <<YearMin(df), YearMax(df)>>
    /\ Cardinality(selected_countries) >= 2
    /\ selected_years[1] < selected_years[2]
    /\ Len(filtered_df) = MaxRows

\* C3: with no country selected the view is empty and every aggregation of
\* the run ends in NoDataError.
EmptySelectionRaisesNoData ==
    ("filter" \in rendered /\ selected_countries = {}) =>
        /\ filtered_df = <<>>
        /\ \A a \in Aggregations : Outcome(a) = "NoDataError"

\* C4: the market-share table has at most 15 entries, each share a number
\* in [0, 100], in descending order of share.
MarketShareBounded ==
    "chart2" \in rendered =>
        /\ Len(market_share_by_country) <= 15
        /\ \A i \in 1..Len(market_share_by_country) :
              /\ ~market_share_by_country[i].ev_share.nan
              /\ market_share_by_country[i].ev_share.v >= 0
              /\ market_share_by_country[i].ev_share.v <= 10000
        /\ \A i, j \in 1..Len(market_share_by_country) :
              i < j => market_share_by_country[i].ev_share.v
                       >= market_share_by_country[j].ev_share.v

\* C5: a country whose summed sales are all zero has the share 0 in the
\* market-share table, or is not in it.
ZeroTotalGuarded ==
    "chart2" \in rendered =>
        \A e \in Rows(market_share_by_country) :
            e.total = 0 => e.ev_share = Num(0)

\* C6: sales-over-time has one entry for each year of the view and for no
\* other year, each entry holds the sums of ev_sales and petrol_car_sales
\* over the view's rows of its year, and the entries add up to the two
\* summary totals.
SalesOverTimeExact ==
    "chart1" \in rendered =>
        /\ {e.year : e \in Rows(sales_by_year)} = Unique(filtered_df, "year")
        /\ Len(sales_by_year) = Cardinality(Unique(filtered_df, "year"))
        /\ \A e \in Rows(sales_by_year) :
              /\ e.ev_sales =
                    SumCol(WhereCol(filtered_df, "year", e.year), "ev_sales")
              /\ e.petrol_car_sales =
                    SumCol(WhereCol(filtered_df, "year", e.year),
                           "petrol_car_sales")
        /\ "metric1" \in rendered => SumCol(sales_by_year, "ev_sales") = total_ev
        /\ "metric2" \in rendered =>
              SumCol(sales_by_year, "petrol_car_sales") = total_petrol

\* two years in the view, one of them with two rows that have sales
SalesOverTimeWitness ==
    /\ "metric2" \in rendered
    /\ Len(sales_by_year) = 2
    /\ \E e \in Rows(sales_by_year) : e.ev_sales >= 2
    /\ total_petrol >= 4

\* C7: the file is read at most once; once load_data has returned a table,
\* no later step reads the file or changes what load_data returns, whatever
\* the file holds by then.
LoadedOnce ==
    /\ [](reads <= 1)
    /\ [][cache.ok => /\ cache' = cache
                      /\ reads' = reads
                      /\ df'.ok => df' = cache]_vars

\* a run answered from the cache while the file held something else
LoadedOnceWitness ==
    /\ stale
    /\ reads = 1
    /\ df = cache
    /\ csv # cache
    /\ "table" \in rendered

\* C8: when an aggregation raises, every other aggregation and the raw-data
\* table are still rendered.
FailureIsLocal ==
    (exception # "none" /\ FailedStep \in Aggregations) =>
        (Aggregations \cup {"table"}) \ {FailedStep} \subseteq rendered

\* C9: countries of equal share keep the order of the grouped table, in the
\* result and across the top-15 cut.
TiesKeepGroupOrder ==
    "chart2" \in rendered =>
        LET grouped == MarketShare(filtered_df)
            kept == {e.country : e \in Rows(market_share_by_country)}
        IN  /\ \A i, j \in 1..Len(market_share_by_country) :
                  (/\ i < j
                   /\ market_share_by_country[i].ev_share
                      = market_share_by_country[j].ev_share)
                  => market_share_by_country[i].country
                     < market_share_by_country[j].country
            /\ \A e \in Rows(market_share_by_country), g \in Rows(grouped) :
                  (g.country \notin kept /\ g.ev_share = e.ev_share)
                  => e.country < g.country

\* C10: the GDP-vs-share table has one row for each country with a row of
\* the view at the latest year, that row being the country's first such row
\* of the view, unmerged, with ev_market_share_pct = ev_market_share * 100;
\* charts 3 and 9 use the same latest year.
GdpTableExact ==
    "chart9" \in rendered =>
        LET atLatest == {r \in Rows(filtered_df) :
                            \A q \in Rows(filtered_df) : q.year <= r.year}
        IN  /\ {e.row.country : e \in Rows(gdp_ev_data)}
               = {r.country : r \in atLatest}
            /\ Len(gdp_ev_data) = Cardinality({r.country : r \in atLatest})
            /\ \A e \in Rows(gdp_ev_data) :
                  /\ e.row \in atLatest
                  /\ \A r \in atLatest :
                        r.country = e.row.country => e.row.idx <= r.idx
                  /\ e.ev_market_share_pct = e.row.ev_market_share * 100
            /\ Rows(range_data) = atLatest
            /\ Len(range_data) = Cardinality(atLatest)
            /\ latest_year.nan = (filtered_df = <<>>)
            /\ \A r \in atLatest : latest_year = Num(r.year)
            /\ vehicle_dist =
                  <<SumCol(range_data, "ev_sales"),
                    SumCol(range_data, "petrol_car_sales"),
                    SumCol(range_data, "diesel_car_sales")>>

\* a country with two different rows at the latest year, and an earlier year
\* in the view
GdpTableWitness ==
    /\ "chart9" \in rendered
    /\ Len(gdp_ev_data) = 1
    /\ \E r \in Rows(filtered_df) :
          /\ r.year = gdp_ev_data[1].row.year
          /\ r.country = gdp_ev_data[1].row.country
          /\ r.ev_market_share # gdp_ev_data[1].row.ev_market_share
    /\ \E r \in Rows(filtered_df) : r.year < gdp_ev_data[1].row.year

====
